---------------------------- MODULE Spec2Model ----------------------------
(***************************************************************************)
(* The lab proxy of the e-learning platform (the express application with  *)
(* the single route GET /proxy).  One request is followed from its arrival *)
(* to its response: the presence check of the `url` query parameter, the   *)
(* parse of the URL, the allow-list lookup of its hostname, the outbound   *)
(* fetch, the copy of the upstream headers, the forced frame headers, the  *)
(* read of the body and the relay, with the catch block around all of it.  *)
(*                                                                         *)
(* Character strings that the code takes apart (the `url` parameter, the   *)
(* allow-list entries) are sequences of one-character strings, so that     *)
(* `new URL(target)` is a parser over characters.  Header names, header    *)
(* values and bodies are never taken apart and stay TLA+ strings.          *)
(*                                                                         *)
(* Library calls follow the behaviour of the libraries the code runs on:   *)
(* the WHATWG URL parser for `new URL`, the Fetch `Headers` object (names  *)
(* lower-cased), Node's `res.setHeader` (names case-insensitive, a second  *)
(* call replaces the value) and Express's `res.send` (Content-Length set   *)
(* from the body handed to it, Content-Type defaulted, entity headers      *)
(* removed on 204 and 304).  Inbound requests carry no conditional request *)
(* headers, so `res.send` never turns a response into 304 by itself.       *)
(*                                                                         *)
(* Beside the proxy the module holds the relational store of the course    *)
(* service with its two triggers, the sign-in service with the users table *)
(* and the browser's localStorage, and the completion handler of the       *)
(* module viewer.  Each part has its own next-state relation and           *)
(* specification over the one state; a part leaves the others' variables   *)
(* as they are.                                                            *)
(***************************************************************************)
EXTENDS Integers, Sequences, FiniteSets, TLC

(***************************************************************************)
(* The state.  Per request: the position of its handler (pc), the value of *)
(* req.query.url (query), the calls of fetch made for it (outbound), the   *)
(* upstream response once it has arrived (upstream), the response object   *)
(* (res) and what the handler wrote to the error console (console).  For   *)
(* the process: the module-level ALLOWLIST array (allowlist).              *)
(*                                                                         *)
(* The relational store behind the course service: the tables courses,     *)
(* course_modules, course_enrollments and user_progress, and the outcome   *)
(* of the last statement as the caller of the service sees it (dbResult).  *)
(*                                                                         *)
(* The sign-in service: the table users, and per browser the item          *)
(* 'cyberSecUser' of its localStorage (localStorage) and the call of       *)
(* AuthService that is in flight or was the last to end (authCall).        *)
(*                                                                         *)
(* The module viewer: the module objects of the course data in the page    *)
(* (owaspCourses), whether the test is shown (showTest) and the run of     *)
(* handleTestCompletion that is in flight or was the last (completion).    *)
(***************************************************************************)
VARIABLES pc, query, outbound, upstream, res, console, allowlist,
          courses, course_modules, course_enrollments, user_progress, dbResult,
          users, localStorage, authCall,
          owaspCourses, showTest, completion

(***************************************************************************)
(* Strings as character sequences.                                         *)
(***************************************************************************)
\* testphp.vulnweb.com
H_testphp ==
    <<"t", "e", "s", "t", "p", "h", "p", ".", "v", "u", "l", "n", "w", "e", "b", ".", "c", "o", "m">>

\* juice-shop.herokuapp.com
H_juiceHeroku ==
    <<"j", "u", "i", "c", "e", "-", "s", "h", "o", "p", ".", "h", "e", "r", "o", "k", "u", "a", "p", "p", ".", "c", "o", "m">>

\* juice-shop.github.io
H_juiceGithub ==
    <<"j", "u", "i", "c", "e", "-", "s", "h", "o", "p", ".", "g", "i", "t", "h", "u", "b", ".", "i", "o">>

\* badssl.com
H_badssl ==
    <<"b", "a", "d", "s", "s", "l", ".", "c", "o", "m">>

\* elsewhere.example
H_elsewhere ==
    <<"e", "l", "s", "e", "w", "h", "e", "r", "e", ".", "e", "x", "a", "m", "p", "l", "e">>
\* https://vulnweb.com/
U_parent ==
    <<"h", "t", "t", "p", "s", ":", "/", "/", "v", "u", "l", "n", "w", "e", "b", ".", "c", "o", "m", "/">>

\* https://badssl.com/?next=evil.example
U_query ==
    <<"h", "t", "t", "p", "s", ":", "/", "/", "b", "a", "d", "s", "s", "l", ".", "c", "o", "m", "/", "?", "n", "e", "x", "t", "=", "e", "v", "i", "l", ".", "e", "x", "a", "m", "p", "l", "e">>

\* http
S_http ==
    <<"h", "t", "t", "p">>

\* https
S_https ==
    <<"h", "t", "t", "p", "s">>

\* ftp
S_ftp ==
    <<"f", "t", "p">>

\* ws
S_ws ==
    <<"w", "s">>

\* wss
S_wss ==
    <<"w", "s", "s">>
\* https://badssl.com/
U_badssl ==
    <<"h", "t", "t", "p", "s", ":", "/", "/", "b", "a", "d", "s", "s", "l", ".", "c", "o", "m", "/">>

\* http://testphp.vulnweb.com/login.php
U_testphp ==
    <<"h", "t", "t", "p", ":", "/", "/", "t", "e", "s", "t", "p", "h", "p", ".", "v", "u", "l", "n", "w", "e", "b", ".", "c", "o", "m", "/", "l", "o", "g", "i", "n", ".", "p", "h", "p">>

\* https://evil.example.com/
U_evil ==
    <<"h", "t", "t", "p", "s", ":", "/", "/", "e", "v", "i", "l", ".", "e", "x", "a", "m", "p", "l", "e", ".", "c", "o", "m", "/">>

\* not-a-url
U_notAUrl ==
    <<"n", "o", "t", "-", "a", "-", "u", "r", "l">>

\* https://BADSSL.com/
U_upperHost ==
    <<"h", "t", "t", "p", "s", ":", "/", "/", "B", "A", "D", "S", "S", "L", ".", "c", "o", "m", "/">>

\* HTTPS://badssl.com/
U_upperScheme ==
    <<"H", "T", "T", "P", "S", ":", "/", "/", "b", "a", "d", "s", "s", "l", ".", "c", "o", "m", "/">>

\* https://www.badssl.com/
U_subdomain ==
    <<"h", "t", "t", "p", "s", ":", "/", "/", "w", "w", "w", ".", "b", "a", "d", "s", "s", "l", ".", "c", "o", "m", "/">>

\* https://badssl.com.evil.example/
U_suffix ==
    <<"h", "t", "t", "p", "s", ":", "/", "/", "b", "a", "d", "s", "s", "l", ".", "c", "o", "m", ".", "e", "v", "i", "l", ".", "e", "x", "a", "m", "p", "l", "e", "/">>

\* https://badssl.com@evil.example/
U_userinfo ==
    <<"h", "t", "t", "p", "s", ":", "/", "/", "b", "a", "d", "s", "s", "l", ".", "c", "o", "m", "@", "e", "v", "i", "l", ".", "e", "x", "a", "m", "p", "l", "e", "/">>

\* https://evil.example/badssl.com
U_inPath ==
    <<"h", "t", "t", "p", "s", ":", "/", "/", "e", "v", "i", "l", ".", "e", "x", "a", "m", "p", "l", "e", "/", "b", "a", "d", "s", "s", "l", ".", "c", "o", "m">>

\* https://badssl.com:8443/
U_port ==
    <<"h", "t", "t", "p", "s", ":", "/", "/", "b", "a", "d", "s", "s", "l", ".", "c", "o", "m", ":", "8", "4", "4", "3", "/">>

\* https://badssl.com:80x/
U_badPort ==
    <<"h", "t", "t", "p", "s", ":", "/", "/", "b", "a", "d", "s", "s", "l", ".", "c", "o", "m", ":", "8", "0", "x", "/">>

\* https://
U_noHost ==
    <<"h", "t", "t", "p", "s", ":", "/", "/">>

\* https:badssl.com
U_noSlashes ==
    <<"h", "t", "t", "p", "s", ":", "b", "a", "d", "s", "s", "l", ".", "c", "o", "m">>

\* ' https://badssl.com/ '
U_padded ==
    <<" ", "h", "t", "t", "p", "s", ":", "/", "/", "b", "a", "d", "s", "s", "l", ".", "c", "o", "m", "/", " ">>

\* https://bad ssl.com/
U_spaceInHost ==
    <<"h", "t", "t", "p", "s", ":", "/", "/", "b", "a", "d", " ", "s", "s", "l", ".", "c", "o", "m", "/">>

\* ftp://badssl.com/
U_ftp ==
    <<"f", "t", "p", ":", "/", "/", "b", "a", "d", "s", "s", "l", ".", "c", "o", "m", "/">>

\* lab://badssl.com/
U_otherScheme ==
    <<"l", "a", "b", ":", "/", "/", "b", "a", "d", "s", "s", "l", ".", "c", "o", "m", "/">>

\* lab://BADSSL.com/
U_otherSchemeUpper ==
    <<"l", "a", "b", ":", "/", "/", "B", "A", "D", "S", "S", "L", ".", "c", "o", "m", "/">>

\* badssl.com:443
U_opaque ==
    <<"b", "a", "d", "s", "s", "l", ".", "c", "o", "m", ":", "4", "4", "3">>
\* x-frame-options
N_xFrameOptions ==
    <<"x", "-", "f", "r", "a", "m", "e", "-", "o", "p", "t", "i", "o", "n", "s">>

\* content-security-policy
N_contentSecurityPolicy ==
    <<"c", "o", "n", "t", "e", "n", "t", "-", "s", "e", "c", "u", "r", "i", "t", "y", "-", "p", "o", "l", "i", "c", "y">>

\* X-Frame-Options
N_XFrameOptions ==
    <<"X", "-", "F", "r", "a", "m", "e", "-", "O", "p", "t", "i", "o", "n", "s">>

\* Content-Security-Policy
N_ContentSecurityPolicy ==
    <<"C", "o", "n", "t", "e", "n", "t", "-", "S", "e", "c", "u", "r", "i", "t", "y", "-", "P", "o", "l", "i", "c", "y">>

\* X-FRAME-OPTIONS
N_XFRAMEOPTIONS ==
    <<"X", "-", "F", "R", "A", "M", "E", "-", "O", "P", "T", "I", "O", "N", "S">>

\* Content-Type
N_ContentType ==
    <<"C", "o", "n", "t", "e", "n", "t", "-", "T", "y", "p", "e">>

\* Content-Length
N_ContentLength ==
    <<"C", "o", "n", "t", "e", "n", "t", "-", "L", "e", "n", "g", "t", "h">>

\* Transfer-Encoding
N_TransferEncoding ==
    <<"T", "r", "a", "n", "s", "f", "e", "r", "-", "E", "n", "c", "o", "d", "i", "n", "g">>

\* Content-Encoding
N_ContentEncoding ==
    <<"C", "o", "n", "t", "e", "n", "t", "-", "E", "n", "c", "o", "d", "i", "n", "g">>

\* Access-Control-Allow-Origin
N_AccessControlAllowOrigin ==
    <<"A", "c", "c", "e", "s", "s", "-", "C", "o", "n", "t", "r", "o", "l", "-", "A", "l", "l", "o", "w", "-", "O", "r", "i", "g", "i", "n">>

\* Server
N_Server ==
    <<"S", "e", "r", "v", "e", "r">>

UpperChars ==
    <<"A", "B", "C", "D", "E", "F", "G", "H", "I", "J", "K", "L", "M",
      "N", "O", "P", "Q", "R", "S", "T", "U", "V", "W", "X", "Y", "Z">>

LowerChars ==
    <<"a", "b", "c", "d", "e", "f", "g", "h", "i", "j", "k", "l", "m",
      "n", "o", "p", "q", "r", "s", "t", "u", "v", "w", "x", "y", "z">>

Digits ==
    {"0", "1", "2", "3", "4", "5", "6", "7", "8", "9"}

IsUpper(c) ==
    \E i \in 1..Len(UpperChars) : UpperChars[i] = c

IsLower(c) ==
    \E i \in 1..Len(LowerChars) : LowerChars[i] = c

IsAlpha(c) ==
    IsUpper(c) \/ IsLower(c)

\* ASCII lower-casing of one character.
ToLowerChar(c) ==
    IF IsUpper(c)
    THEN LowerChars[CHOOSE i \in 1..Len(UpperChars) : UpperChars[i] = c]
    ELSE c

\* ASCII lower-casing of a string.
ToLowerStr(s) ==
    [i \in 1..Len(s) |-> ToLowerChar(s[i])]

\* The characters of s from position i on.
DropTo(s, i) ==
    SubSeq(s, i, Len(s))

\* Position of the first character of s that is in cs, Len(s) + 1 if none.
FirstIn(s, cs) ==
    IF \E i \in 1..Len(s) : s[i] \in cs
    THEN CHOOSE i \in 1..Len(s) : s[i] \in cs /\ \A j \in 1..(i - 1) : s[j] \notin cs
    ELSE Len(s) + 1

\* Position of the last character of s that is in cs, 0 if none.
LastIn(s, cs) ==
    IF \E i \in 1..Len(s) : s[i] \in cs
    THEN CHOOSE i \in 1..Len(s) : s[i] \in cs /\ \A j \in (i + 1)..Len(s) : s[j] \notin cs
    ELSE 0

\* Position of the first character of s that is not in cs, Len(s) + 1 if none.
FirstNotIn(s, cs) ==
    IF \E i \in 1..Len(s) : s[i] \notin cs
    THEN CHOOSE i \in 1..Len(s) : s[i] \notin cs /\ \A j \in 1..(i - 1) : s[j] \in cs
    ELSE Len(s) + 1

(***************************************************************************)
(* new URL(target): the WHATWG basic URL parser without a base URL, as far *)
(* as the hostname depends on it.  The result is a record: ok is FALSE     *)
(* where the constructor throws a TypeError.                               *)
(***************************************************************************)

\* The schemes the URL standard calls special (file: is left out, no input uses it).
SpecialSchemes ==
    {S_http, S_https, S_ftp, S_ws, S_wss}

\* Leading and trailing spaces are removed before the parse.
TrimSpaces(s) ==
    LET first == FirstNotIn(s, {" "})
        last  == IF first > Len(s) THEN 0
                 ELSE CHOOSE i \in 1..Len(s) :
                        s[i] # " " /\ \A j \in (i + 1)..Len(s) : s[j] = " "
    IN SubSeq(s, first, last)

\* Scheme state: a letter, then letters, digits, "+", "-", "." up to the
\* first ":".  The position of that ":", or 0 if the input has no scheme.
SchemeColon(s) ==
    LET k == FirstIn(s, {":"})
    IN IF /\ k <= Len(s)
          /\ k > 1
          /\ IsAlpha(s[1])
          /\ \A i \in 2..(k - 1) : IsAlpha(s[i]) \/ s[i] \in Digits \/ s[i] \in {"+", "-", "."}
       THEN k
       ELSE 0

ParseFailure ==
    [ok |-> FALSE, scheme |-> <<>>, hostname |-> <<>>]

\* The code points a host may not contain (those the inputs can hold).
ForbiddenHostChars ==
    {" ", "#", "/", ":", "<", ">", "?", "@", "[", "\\", "]", "^", "|"}

\* Host parsing: a domain of a special scheme is lower-cased, the opaque
\* host of any other scheme is kept as written.
ParseHost(host, special) ==
    IF \E i \in 1..Len(host) : host[i] \in ForbiddenHostChars
    THEN [ok |-> FALSE, host |-> <<>>]
    ELSE [ok |-> TRUE, host |-> IF special THEN ToLowerStr(host) ELSE host]

\* Authority, host and port states.  a is the input after the slashes.
ParseAuthority(scheme, a, special) ==
    LET stops    == IF special THEN {"/", "?", "#", "\\"} ELSE {"/", "?", "#"}
        auth     == SubSeq(a, 1, FirstIn(a, stops) - 1)
        at       == LastIn(auth, {"@"})
        hostport == DropTo(auth, at + 1)
        colon    == FirstIn(hostport, {":"})
        host     == SubSeq(hostport, 1, colon - 1)
        port     == DropTo(hostport, colon + 1)
        parsed   == ParseHost(host, special)
    IN IF at > 0 /\ hostport = <<>> THEN ParseFailure
       ELSE IF special /\ host = <<>> THEN ParseFailure
       ELSE IF \E i \in 1..Len(port) : port[i] \notin Digits THEN ParseFailure
       ELSE IF ~parsed.ok THEN ParseFailure
       ELSE [ok |-> TRUE, scheme |-> scheme, hostname |-> parsed.host]

ParseURL(target) ==
    LET s      == TrimSpaces(target)
        k      == SchemeColon(s)
        scheme == ToLowerStr(SubSeq(s, 1, k - 1))
        rest   == DropTo(s, k + 1)
    IN IF k = 0 THEN ParseFailure
       ELSE IF scheme \in SpecialSchemes
            THEN ParseAuthority(scheme, DropTo(rest, FirstNotIn(rest, {"/", "\\"})), TRUE)
       ELSE IF Len(rest) >= 2 /\ rest[1] = "/" /\ rest[2] = "/"
            THEN ParseAuthority(scheme, DropTo(rest, 3), FALSE)
       ELSE [ok |-> TRUE, scheme |-> scheme, hostname |-> <<>>]

(***************************************************************************)
(* The proxy.                                                              *)
(***************************************************************************)

\* Allowlist of demo lab domains.
ALLOWLIST ==
    <<H_testphp, H_juiceHeroku, H_juiceGithub, H_badssl>>

\* The request slots.  Each slot carries one GET /proxy request.
Requests ==
    {"r1", "r2"}

\* The values req.query.url can have: absent, a string (the empty one
\* included), an array (the parameter repeated) or a nested object.
Targets ==
    {U_badssl, U_testphp, U_evil, U_notAUrl, U_upperHost, U_upperScheme,
     U_subdomain, U_suffix, U_userinfo, U_inPath, U_port, U_badPort, U_noHost,
     U_noSlashes, U_padded, U_spaceInHost, U_ftp, U_otherScheme,
     U_otherSchemeUpper, U_opaque, U_parent, U_query}

QueryValues ==
    {[kind |-> "undefined", str |-> <<>>],
     [kind |-> "array", str |-> <<>>],
     [kind |-> "object", str |-> <<>>]}
    \cup {[kind |-> "string", str |-> s] : s \in Targets \cup {<<>>}}

NoQuery ==
    [kind |-> "none", str |-> <<>>]

\* JavaScript truthiness and typeof of a query value.
Truthy(q) ==
    /\ q.kind # "undefined"
    /\ ~(q.kind = "string" /\ q.str = <<>>)

TypeOf(q) ==
    CASE q.kind = "undefined" -> "undefined"
      [] q.kind = "string"    -> "string"
      [] OTHER                -> "object"

\* MissingUrl with the check narrowed to the empty string.
MissingUrlEmptyOnly(target) ==
    target.kind = "string" /\ target.str = <<>>

\* MissingUrl with the check narrowed to an absent parameter.
MissingUrlAbsentOnly(target) ==
    target.kind = "undefined"

\* MissingUrl without the typeof test: !target alone.
MissingUrlFalsyOnly(target) ==
    ~Truthy(target)

\* !target || typeof target !== 'string'
MissingUrl(target) ==
    ~Truthy(target) \/ TypeOf(target) # "string"

\* Allowed as a suffix match: hostname.endsWith(entry).
AllowedSuffix(hostname) ==
    \E i \in 1..Len(allowlist) :
        /\ Len(hostname) >= Len(allowlist[i])
        /\ DropTo(hostname, Len(hostname) - Len(allowlist[i]) + 1) = allowlist[i]

\* Allowed as a prefix match: hostname.startsWith(entry).
AllowedPrefix(hostname) ==
    \E i \in 1..Len(allowlist) :
        /\ Len(hostname) >= Len(allowlist[i])
        /\ SubSeq(hostname, 1, Len(allowlist[i])) = allowlist[i]

\* Allowed as a substring match: hostname.includes(entry).
AllowedContains(hostname) ==
    \E i \in 1..Len(allowlist) :
        \E k \in 1..(Len(hostname) - Len(allowlist[i]) + 1) :
            SubSeq(hostname, k, k + Len(allowlist[i]) - 1) = allowlist[i]

\* ALLOWLIST.includes(urlObj.hostname)
Allowed(hostname) ==
    \E i \in 1..Len(allowlist) : allowlist[i] = hostname

\* fetch() performs HTTP(S) requests only; for any other scheme the promise
\* rejects without a response.
FetchSupported(target) ==
    ParseURL(target).ok /\ ParseURL(target).scheme \in {S_http, S_https}

(***************************************************************************)
(* Header maps: functions from lower-cased header names to values.         *)
(***************************************************************************)

\* res.setHeader(name, value): the name is case-insensitive, an existing
\* value is replaced.
SetHeader(headers, name, value) ==
    LET key == ToLowerStr(name)
    IN [n \in DOMAIN headers \cup {key} |-> IF n = key THEN value ELSE headers[n]]

\* res.removeHeader(name)
RemoveHeader(headers, name) ==
    [n \in DOMAIN headers \ {ToLowerStr(name)} |-> headers[n]]

NoHeaders ==
    [n \in {} |-> ""]

\* The header lines an upstream server may send, as written on the wire.
HeaderLines ==
    {<<N_XFrameOptions, "DENY">>,
     <<N_XFRAMEOPTIONS, "SAMEORIGIN">>,
     <<N_ContentSecurityPolicy, "frame-ancestors 'none'">>,
     <<N_contentSecurityPolicy, "default-src 'self'">>,
     <<N_ContentType, "text/html">>,
     <<N_ContentLength, "16">>,
     <<N_ContentLength, "9">>,
     <<N_ContentEncoding, "gzip">>,
     <<N_AccessControlAllowOrigin, "https://lab.example">>,
     <<N_Server, "nginx">>}

\* The most header lines of one upstream response.
MaxHeaders ==
    2

\* The Headers object of a fetch Response: every name lower-cased.  (Lines
\* whose names differ only in case would be joined; the inputs have none.)
MakeHeaders(lines) ==
    [n \in {ToLowerStr(l[1]) : l \in lines} |->
        (CHOOSE l \in lines : ToLowerStr(l[1]) = n)[2]]

HeaderSets ==
    {L \in SUBSET HeaderLines :
        /\ Cardinality(L) <= MaxHeaders
        /\ \A a, b \in L : ToLowerStr(a[1]) = ToLowerStr(b[1]) => a = b}

Statuses ==
    {200, 204, 400, 403, 500}

Bodies ==
    {"", "<html>lab</html>"}

\* The responses a fetch of target may resolve with.  With redirect:
\* 'follow' the answer comes from the last host of the redirect chain.
\* fetch hands out the decoded body: without a Content-Encoding its length
\* is the Content-Length of the wire, with one it need not be.  A 204 has
\* no body.
UpstreamResponses(target) ==
    LET all == {[status |-> s, headers |-> MakeHeaders(L), body |-> b, host |-> h] :
                    s \in Statuses, L \in HeaderSets, b \in Bodies,
                    h \in {ParseURL(target).hostname, H_elsewhere}}
        cl  == ToLowerStr(N_ContentLength)
        ce  == ToLowerStr(N_ContentEncoding)
    IN {u \in all :
            /\ u.status = 204 => u.body = ""
            /\ (cl \in DOMAIN u.headers /\ ce \notin DOMAIN u.headers)
                  => u.headers[cl] = ToString(Len(u.body))}

NoResponse ==
    [status |-> 0, headers |-> NoHeaders, body |-> "", host |-> <<>>]

(***************************************************************************)
(* The response object of a request.  sent is the sequence of responses    *)
(* put on the wire for it, escaped says that an exception left the handler.*)
(***************************************************************************)

\* app.use(cors()): every response starts with Access-Control-Allow-Origin: *.
Cors(headers) ==
    SetHeader(headers, N_AccessControlAllowOrigin, "*")

NewRes ==
    [statusCode |-> 200, headers |-> Cors(NoHeaders), sent |-> <<>>, escaped |-> FALSE]

\* res.status(code)
Status(rs, code) ==
    [rs EXCEPT !.statusCode = code]

\* The charset parameter res.send puts on the Content-Type of a string body.
WithCharset(type) ==
    IF type = "text/html; charset=utf-8" THEN type ELSE type \o "; charset=utf-8"

\* res.send(body): the Content-Type is defaulted (and given the utf-8
\* charset for a string body), Content-Length is set from the body, and a
\* 204 or 304 goes out without entity headers and without body.
Send(rs, body, isBuffer) ==
    LET ct    == ToLowerStr(N_ContentType)
        typed == IF ct \in DOMAIN rs.headers
                 THEN IF isBuffer THEN rs.headers
                      ELSE SetHeader(rs.headers, N_ContentType, WithCharset(rs.headers[ct]))
                 ELSE SetHeader(rs.headers, N_ContentType,
                                IF isBuffer THEN "application/octet-stream"
                                ELSE "text/html; charset=utf-8")
        sized == SetHeader(typed, N_ContentLength, ToString(Len(body)))
        bare  == rs.statusCode \in {204, 304}
        final == IF bare
                 THEN RemoveHeader(RemoveHeader(RemoveHeader(sized,
                        N_ContentType), N_ContentLength), N_TransferEncoding)
                 ELSE sized
    IN [rs EXCEPT !.headers = final,
                  !.sent = Append(@, [status  |-> rs.statusCode,
                                      headers |-> final,
                                      body    |-> IF bare THEN "" ELSE body])]

\* Stripped with the Content-Security-Policy entry forgotten.
StrippedXfoOnly(key) ==
    ToLowerStr(key) = N_xFrameOptions

\* The names the copy loop leaves out.
Stripped(key) ==
    ToLowerStr(key) \in {N_xFrameOptions, N_contentSecurityPolicy}

\* upstream.headers.forEach((value, key) => ...), over the keys not yet visited.
RECURSIVE CopyHeaders(_, _, _)
CopyHeaders(headers, up, keys) ==
    IF keys = {} THEN headers
    ELSE LET key == CHOOSE k \in keys : TRUE
         IN CopyHeaders(IF Stripped(key) THEN headers
                        ELSE SetHeader(headers, key, up[key]),
                        up, keys \ {key})

\* ForceFrame with the Content-Security-Policy override forgotten.
ForceFrameXfoOnly(headers) ==
    SetHeader(headers, N_XFrameOptions, "")

\* Force permissive frame headers for demo.
ForceFrame(headers) ==
    SetHeader(SetHeader(headers, N_XFrameOptions, ""),
              N_ContentSecurityPolicy, "frame-ancestors 'self' *")

\* Caught answering as for a bad request.
CaughtBadRequest(rs) ==
    Send(Status(rs, 400), "Missing url param", FALSE)

\* Caught without the catch block: the exception leaves the handler and no
\* response is sent.
CaughtRethrow(rs) ==
    [rs EXCEPT !.escaped = TRUE]

\* catch (err) { console.error(err); res.status(500).send('Proxy error'); }
Caught(rs) ==
    Send(Status(rs, 500), "Proxy error", FALSE)

(***************************************************************************)
(* The relational store of the course service.  A table is a function from *)
(* the key of its unique constraint to the columns that the triggers read  *)
(* or write.  A statement with its triggers is one transaction: a          *)
(* constraint that fails undoes all of it and the caller gets the error.   *)
(* Statements run with the rights to the rows they name; who may issue     *)
(* them is not part of this model.                                         *)
(***************************************************************************)

Users ==
    {"u1", "u2"}

\* The users that work through modules; the others enroll only.
Learners ==
    {"u1"}

Courses ==
    {"c1", "c2"}

Modules ==
    {"m1", "m2"}

\* course_modules.course_id of the modules that teachers create: both belong
\* to the first course, the second course stays without modules.
ModuleCourse ==
    [m \in Modules |-> "c1"]

NoRows ==
    [k \in {} |-> {}]

Put(table, key, row) ==
    [k \in DOMAIN table \cup {key} |-> IF k = key THEN row ELSE table[k]]

Drop(table, key) ==
    [k \in DOMAIN table \ {key} |-> table[k]]

\* The courses row that createCourse inserts.
createCourse ==
    [enrollment_count |-> 0]

\* The course_enrollments row of an insert that names user and course only:
\* progress_percentage DEFAULT 0, completed_at without default.
NewEnrollment ==
    [progress_percentage |-> 0, completed_at |-> "NULL"]

\* What the caller of the service gets back: the statement and the error
\* code of the store ("" when the statement went through).
NoStatement ==
    [op |-> "", key |-> <<>>, error |-> ""]

Result(op, key, error) ==
    [op |-> op, key |-> key, error |-> error]

\* update_course_enrollment_count without its WHERE clauses.
update_course_enrollment_countAll(crs, TG_OP, course_id) ==
    [c \in DOMAIN crs |->
        [crs[c] EXCEPT !.enrollment_count =
            IF TG_OP = "INSERT" THEN @ + 1 ELSE IF TG_OP = "DELETE" THEN @ - 1 ELSE @]]

\* update_course_enrollment_count as a trigger AFTER INSERT only.
update_course_enrollment_countInsertOnly(crs, TG_OP, course_id) ==
    IF TG_OP = "INSERT"
    THEN [crs EXCEPT ![course_id].enrollment_count = @ + 1]
    ELSE crs

\* Trigger function update_course_enrollment_count, AFTER INSERT OR DELETE ON
\* course_enrollments FOR EACH ROW; course_id is NEW.course_id or
\* OLD.course_id.
update_course_enrollment_count(crs, TG_OP, course_id) ==
    IF TG_OP = "INSERT"
    THEN [crs EXCEPT ![course_id].enrollment_count = @ + 1]
    ELSE IF TG_OP = "DELETE"
         THEN [crs EXCEPT ![course_id].enrollment_count = @ - 1]
         ELSE crs

\* progress_percent over all modules of the course, published or not.
progress_percentAllModules(mods, prog, user_id, course_id) ==
    LET total_modules == Cardinality({m \in DOMAIN mods : mods[m].course_id = course_id})
        completed_modules ==
            Cardinality({k \in DOMAIN prog :
                            k[1] = user_id /\ k[2] = course_id /\ prog[k].completed})
    IN IF total_modules > 0 THEN (completed_modules * 100) \div total_modules ELSE 0

\* progress_percent of calculate_course_progress: the two counts and the
\* integer division.
progress_percent(mods, prog, user_id, course_id) ==
    LET total_modules ==
            Cardinality({m \in DOMAIN mods :
                            mods[m].course_id = course_id /\ mods[m].is_published})
        completed_modules ==
            Cardinality({k \in DOMAIN prog :
                            k[1] = user_id /\ k[2] = course_id /\ prog[k].completed})
    IN IF total_modules > 0 THEN (completed_modules * 100) \div total_modules ELSE 0

\* calculate_course_progress that sets completed_at and never clears it.
calculate_course_progressKeepsCompleted(enr, mods, prog, user_id, course_id) ==
    LET p == progress_percent(mods, prog, user_id, course_id)
    IN [k \in DOMAIN enr |->
            IF k = <<user_id, course_id>>
            THEN [enr[k] EXCEPT !.progress_percentage = p,
                                !.completed_at = IF p = 100 THEN "now" ELSE @]
            ELSE enr[k]]

\* Trigger function calculate_course_progress, AFTER INSERT OR UPDATE ON
\* user_progress FOR EACH ROW: the UPDATE of the enrollment of NEW.user_id
\* in NEW.course_id (no row, no change).
calculate_course_progress(enr, mods, prog, user_id, course_id) ==
    LET p == progress_percent(mods, prog, user_id, course_id)
    IN [k \in DOMAIN enr |->
            IF k = <<user_id, course_id>>
            THEN [enr[k] EXCEPT !.progress_percentage = p,
                                !.completed_at = IF p = 100 THEN "now" ELSE "NULL"]
            ELSE enr[k]]

\* CHECK (progress_percentage >= 0 AND progress_percentage <= 100)
CheckProgress(enr) ==
    \A k \in DOMAIN enr :
        enr[k].progress_percentage >= 0 /\ enr[k].progress_percentage <= 100

proxy ==
    <<pc, query, outbound, upstream, res, console, allowlist>>

store ==
    <<courses, course_modules, course_enrollments, user_progress, dbResult>>

auth ==
    <<users, localStorage, authCall>>

(***************************************************************************)
(* The sign-in service.  The table users is a set of rows; the browsers    *)
(* call AuthService, and between the awaits of one call the calls of the   *)
(* other browser and a logout of the same browser may run.                 *)
(***************************************************************************)

Browsers ==
    {"b1", "b2"}

Emails ==
    {"ann@lab", "bob@lab"}

\* CHECK (role IN ('admin', 'teacher', 'student'))
Roles ==
    {"admin", "teacher", "student"}

\* The roles a form may send: the three roles and one that is none of them.
RoleInputs ==
    Roles \cup {"guest"}

\* The password of every registration, and the two passwords of a login.
RegisterPassword ==
    "secret"

LoginPasswords ==
    {"secret", "wrong"}

\* bcrypt.hash(password, 10) and bcrypt.compare(password, hash).
Hash(password) ==
    <<"$2a$10$", password>>

Compare(password, hash) ==
    hash = Hash(password)

\* localStorage.getItem('cyberSecUser') of a browser without the item.
null ==
    [item |-> "null"]

\* The AuthService call of a browser: where it stands (step), its arguments,
\* the row its select returned, and how the last call ended (outcome: "" no
\* call yet, "ok" returned, else the message of the Error thrown).
NoCall ==
    [step |-> "idle", email |-> "", role |-> "", password |-> "",
     user |-> null, outcome |-> ""]

Ended(outcome) ==
    [NoCall EXCEPT !.outcome = outcome]

\* crypto.randomUUID(): an id that no row has.
NewId(rows) ==
    Cardinality(rows) + 1

\* const { password_hash, ...userWithoutPassword } = row
WithoutPassword(row) ==
    [f \in DOMAIN row \ {"password_hash"} |-> row[f]]

\* .from('users').select('*').eq('email', email).eq('role', role).maybeSingle()
\* without the filter on role.
SelectUserAnyRole(rows, email, role) ==
    {u \in rows : u.email = email}

\* .from('users').select('*').eq('email', email).eq('role', role).maybeSingle()
SelectUser(rows, email, role) ==
    {u \in rows : u.email = email /\ u.role = role}

\* The constraints of users on an insert with email UNIQUE dropped.
InsertErrorNoUnique(rows, row) ==
    IF row.role \notin Roles THEN "23514" ELSE ""

\* The constraints of users on an insert: email UNIQUE, CHECK on role.
InsertError(rows, row) ==
    IF \E u \in rows : u.email = row.email THEN "23505"
    ELSE IF row.role \notin Roles THEN "23514"
    ELSE ""

\* getCurrentUser(): JSON.parse of the item, null without it.
getCurrentUser(b) ==
    localStorage[b]

\* user?.role
RoleOf(user) ==
    IF user = null THEN "undefined" ELSE user.role

isAdmin(b) ==
    RoleOf(getCurrentUser(b)) = "admin"

\* isTeacher that lets administrators pass as teachers.
isTeacherOrAdmin(b) ==
    RoleOf(getCurrentUser(b)) \in {"teacher", "admin"}

isTeacher(b) ==
    RoleOf(getCurrentUser(b)) = "teacher"

isStudent(b) ==
    RoleOf(getCurrentUser(b)) = "student"

hasRole(b, role) ==
    RoleOf(getCurrentUser(b)) = role

viewer ==
    <<owaspCourses, showTest, completion>>

(***************************************************************************)
(* The module viewer.                                                      *)
(***************************************************************************)

\* The props of the mounted ModuleViewer.
ViewerModule ==
    "m1"

\* The scores a test may hand to onComplete.
Scores ==
    {40, 80}

\* useAuth().user: nobody, or the learner.
NoUser ==
    "null"

ViewerUsers ==
    {NoUser} \cup Learners

\* A run of handleTestCompletion: where it stands (step), its score, the
\* user it saw, how the upsert and the rebalance went, and whether the catch
\* block wrote to the console.
NoCompletion ==
    [step |-> "idle", score |-> 0, user |-> NoUser, upsert |-> "none",
     rebalance |-> "none", logged |-> FALSE]

vars ==
    <<pc, query, outbound, upstream, res, console, allowlist,
      courses, course_modules, course_enrollments, user_progress, dbResult,
      users, localStorage, authCall,
      owaspCourses, showTest, completion>>

Init ==
    /\ pc = [r \in Requests |-> "idle"]
    /\ query = [r \in Requests |-> NoQuery]
    /\ outbound = [r \in Requests |-> <<>>]
    /\ upstream = [r \in Requests |-> NoResponse]
    /\ res = [r \in Requests |-> NewRes]
    /\ console = [r \in Requests |-> <<>>]
    /\ allowlist = ALLOWLIST
    /\ courses = [c \in Courses |-> createCourse]
    /\ course_modules = NoRows
    /\ course_enrollments = NoRows
    /\ user_progress = NoRows
    /\ dbResult = NoStatement
    /\ users = {}
    /\ localStorage = [b \in Browsers |-> null]
    /\ authCall = [b \in Browsers |-> NoCall]
    /\ owaspCourses = [m \in Modules |-> [completed |-> FALSE, testScore |-> <<>>]]
    /\ showTest = FALSE
    /\ completion = NoCompletion

\* A GET /proxy request arrives and is routed to the handler; its `url`
\* parameter is one of values.
ReceiveFrom(r, values) ==
    /\ pc[r] = "idle"
    /\ \E q \in values : query' = [query EXCEPT ![r] = q]
    /\ pc' = [pc EXCEPT ![r] = "handler"]
    /\ UNCHANGED <<outbound, upstream, res, console>>
    /\ UNCHANGED <<allowlist, store, auth, viewer>>

Receive(r) ==
    ReceiveFrom(r, QueryValues)

\* return res.status(400).send('Missing url param')
RejectMissing(r) ==
    /\ pc[r] = "handler"
    /\ MissingUrl(query[r])
    /\ res' = [res EXCEPT ![r] = Send(Status(@, 400), "Missing url param", FALSE)]
    /\ pc' = [pc EXCEPT ![r] = "done"]
    /\ UNCHANGED <<query, outbound, upstream, console>>
    /\ UNCHANGED <<allowlist, store, auth, viewer>>

\* new URL(target) throws; control passes to the catch block.
ParseThrows(r) ==
    /\ pc[r] = "handler"
    /\ ~MissingUrl(query[r])
    /\ ~ParseURL(query[r].str).ok
    /\ res' = [res EXCEPT ![r] = Caught(@)]
    /\ console' = [console EXCEPT ![r] = Append(@, "TypeError: Invalid URL")]
    /\ pc' = [pc EXCEPT ![r] = "done"]
    /\ UNCHANGED <<query, outbound, upstream>>
    /\ UNCHANGED <<allowlist, store, auth, viewer>>

\* RejectForbidden without its return: the 403 is sent and the handler goes
\* on to the fetch.
RejectForbiddenNoReturn(r) ==
    /\ pc[r] = "handler"
    /\ ~MissingUrl(query[r])
    /\ ParseURL(query[r].str).ok
    /\ ~Allowed(ParseURL(query[r].str).hostname)
    /\ res' = [res EXCEPT ![r] = Send(Status(@, 403), "Domain not allowed", FALSE)]
    /\ outbound' = [outbound EXCEPT ![r] = Append(@, query[r].str)]
    /\ pc' = [pc EXCEPT ![r] = "fetch"]
    /\ UNCHANGED <<query, upstream, console>>
    /\ UNCHANGED <<allowlist, store, auth, viewer>>

\* return res.status(403).send('Domain not allowed')
RejectForbidden(r) ==
    /\ pc[r] = "handler"
    /\ ~MissingUrl(query[r])
    /\ ParseURL(query[r].str).ok
    /\ ~Allowed(ParseURL(query[r].str).hostname)
    /\ res' = [res EXCEPT ![r] = Send(Status(@, 403), "Domain not allowed", FALSE)]
    /\ pc' = [pc EXCEPT ![r] = "done"]
    /\ UNCHANGED <<query, outbound, upstream, console>>
    /\ UNCHANGED <<allowlist, store, auth, viewer>>

\* StartFetch with the checked host pushed onto the ALLOWLIST array.
StartFetchRemembers(r) ==
    /\ pc[r] = "handler"
    /\ ~MissingUrl(query[r])
    /\ ParseURL(query[r].str).ok
    /\ Allowed(ParseURL(query[r].str).hostname)
    /\ outbound' = [outbound EXCEPT ![r] = Append(@, query[r].str)]
    /\ allowlist' = Append(allowlist, ParseURL(query[r].str).hostname)
    /\ pc' = [pc EXCEPT ![r] = "fetch"]
    /\ UNCHANGED <<query, upstream, res, console>>
    /\ UNCHANGED <<store, auth, viewer>>

\* const upstream = await fetch(target, { redirect: 'follow' }): the call.
StartFetch(r) ==
    /\ pc[r] = "handler"
    /\ ~MissingUrl(query[r])
    /\ ParseURL(query[r].str).ok
    /\ Allowed(ParseURL(query[r].str).hostname)
    /\ outbound' = [outbound EXCEPT ![r] = Append(@, query[r].str)]
    /\ pc' = [pc EXCEPT ![r] = "fetch"]
    /\ UNCHANGED <<query, upstream, res, console>>
    /\ UNCHANGED <<allowlist, store, auth, viewer>>

\* The fetch promise resolves with the upstream response, one of responses.
FetchResolvesWith(r, responses) ==
    /\ pc[r] = "fetch"
    /\ FetchSupported(query[r].str)
    /\ \E u \in responses : upstream' = [upstream EXCEPT ![r] = u]
    /\ pc' = [pc EXCEPT ![r] = "copy"]
    /\ UNCHANGED <<query, outbound, res, console>>
    /\ UNCHANGED <<allowlist, store, auth, viewer>>

FetchResolves(r) ==
    FetchResolvesWith(r, UpstreamResponses(query[r].str))

\* FetchRejects with one retry: the first rejection issues the fetch again.
FetchRejectsRetries(r) ==
    /\ pc[r] = "fetch"
    /\ IF Len(outbound[r]) < 2
       THEN /\ outbound' = [outbound EXCEPT ![r] = Append(@, query[r].str)]
            /\ UNCHANGED <<pc, res, console>>
       ELSE /\ res' = [res EXCEPT ![r] = Caught(@)]
            /\ console' = [console EXCEPT ![r] = Append(@, "TypeError: fetch failed")]
            /\ pc' = [pc EXCEPT ![r] = "done"]
            /\ UNCHANGED outbound
    /\ UNCHANGED <<query, upstream, allowlist, store, auth, viewer>>

\* FetchRejects as a timeout of the proxy: the wait is given up and 504 sent.
FetchRejectsTimeout(r) ==
    /\ pc[r] = "fetch"
    /\ res' = [res EXCEPT ![r] = Send(Status(@, 504), "Upstream timeout", FALSE)]
    /\ pc' = [pc EXCEPT ![r] = "done"]
    /\ UNCHANGED <<query, outbound, upstream, console, allowlist, store, auth, viewer>>

\* The fetch promise rejects (unsupported scheme, DNS or connection failure).
FetchRejects(r) ==
    /\ pc[r] = "fetch"
    /\ res' = [res EXCEPT ![r] = Caught(@)]
    /\ console' = [console EXCEPT ![r] = Append(@, "TypeError: fetch failed")]
    /\ pc' = [pc EXCEPT ![r] = "done"]
    /\ UNCHANGED <<query, outbound, upstream>>
    /\ UNCHANGED <<allowlist, store, auth, viewer>>

\* CopyUpstreamHeaders onto a header object shared by all requests in flight.
CopyUpstreamHeadersShared(r) ==
    /\ pc[r] = "copy"
    /\ res' = [q \in Requests |->
                  IF pc[q] = "done" THEN res[q]
                  ELSE [res[q] EXCEPT !.headers =
                          CopyHeaders(@, upstream[r].headers, DOMAIN upstream[r].headers)]]
    /\ pc' = [pc EXCEPT ![r] = "force"]
    /\ UNCHANGED <<query, outbound, upstream, console, allowlist, store, auth, viewer>>

\* Copy headers but strip frame-blocking.
CopyUpstreamHeaders(r) ==
    /\ pc[r] = "copy"
    /\ res' = [res EXCEPT ![r].headers =
                  CopyHeaders(@, upstream[r].headers, DOMAIN upstream[r].headers)]
    /\ pc' = [pc EXCEPT ![r] = "force"]
    /\ UNCHANGED <<query, outbound, upstream, console>>
    /\ UNCHANGED <<allowlist, store, auth, viewer>>

\* The two res.setHeader calls after the loop, then the call of arrayBuffer().
ForceFrameHeaders(r) ==
    /\ pc[r] = "force"
    /\ res' = [res EXCEPT ![r].headers = ForceFrame(@)]
    /\ pc' = [pc EXCEPT ![r] = "body"]
    /\ UNCHANGED <<query, outbound, upstream, console>>
    /\ UNCHANGED <<allowlist, store, auth, viewer>>

\* BodyResolves with the host that answered checked against the allow-list
\* before the relay.
BodyResolvesRecheck(r) ==
    /\ pc[r] = "body"
    /\ res' = [res EXCEPT ![r] =
                  IF Allowed(upstream[r].host)
                  THEN Send(Status(@, upstream[r].status), upstream[r].body, TRUE)
                  ELSE Send(Status(@, 403), "Domain not allowed", FALSE)]
    /\ pc' = [pc EXCEPT ![r] = "done"]
    /\ UNCHANGED <<query, outbound, upstream, console, allowlist, store, auth, viewer>>

\* The body promise resolves: res.status(upstream.status).send(Buffer.from(body)).
BodyResolves(r) ==
    /\ pc[r] = "body"
    /\ res' = [res EXCEPT ![r] = Send(Status(@, upstream[r].status), upstream[r].body, TRUE)]
    /\ pc' = [pc EXCEPT ![r] = "done"]
    /\ UNCHANGED <<query, outbound, upstream, console>>
    /\ UNCHANGED <<allowlist, store, auth, viewer>>

\* The body promise rejects (the connection breaks while the body is read).
BodyRejects(r) ==
    /\ pc[r] = "body"
    /\ res' = [res EXCEPT ![r] = Caught(@)]
    /\ console' = [console EXCEPT ![r] = Append(@, "TypeError: terminated")]
    /\ pc' = [pc EXCEPT ![r] = "done"]
    /\ UNCHANGED <<query, outbound, upstream>>
    /\ UNCHANGED <<allowlist, store, auth, viewer>>

\* The request the single-request specification follows.
Followed ==
    "r1"

Next ==
    \/ Receive(Followed)
    \/ RejectMissing(Followed)
    \/ ParseThrows(Followed)
    \/ RejectForbidden(Followed)
    \/ StartFetch(Followed)
    \/ FetchResolves(Followed)
    \/ FetchRejects(Followed)
    \/ CopyUpstreamHeaders(Followed)
    \/ ForceFrameHeaders(Followed)
    \/ BodyResolves(Followed)
    \/ BodyRejects(Followed)

Spec ==
    Init /\ [][Next]_vars

(***************************************************************************)
(* Concurrent requests.  Every request slot is served, in any              *)
(* interleaving of the handlers' steps between their awaits; the inputs    *)
(* are a sample of those of the single-request specification.              *)
(***************************************************************************)

SmallQueryValues ==
    {[kind |-> "undefined", str |-> <<>>]}
    \cup {[kind |-> "string", str |-> s] : s \in {U_badssl, U_evil, U_notAUrl, U_ftp}}

SmallHeaderSets ==
    {{}} \cup {{l} : l \in {<<N_XFrameOptions, "DENY">>,
                            <<N_AccessControlAllowOrigin, "https://lab.example">>,
                            <<N_Server, "nginx">>}}

SmallResponses(target) ==
    {[status |-> s, headers |-> MakeHeaders(L), body |-> "<html>lab</html>",
      host |-> ParseURL(target).hostname] : s \in {200, 403}, L \in SmallHeaderSets}

ReceiveSmall(r) ==
    ReceiveFrom(r, SmallQueryValues)

FetchResolvesSmall(r) ==
    FetchResolvesWith(r, SmallResponses(query[r].str))

\* The steps the handler takes by itself, without waiting for the upstream.
HandlerStep(r) ==
    \/ RejectMissing(r)
    \/ ParseThrows(r)
    \/ RejectForbidden(r)
    \/ StartFetch(r)
    \/ CopyUpstreamHeaders(r)
    \/ ForceFrameHeaders(r)

\* The read of a body that has started ends: it completes or it fails.
BodyCompletes(r) ==
    BodyResolves(r) \/ BodyRejects(r)

NextConc ==
    \E r \in Requests :
        \/ ReceiveSmall(r)
        \/ HandlerStep(r)
        \/ FetchResolvesSmall(r)
        \/ FetchRejects(r)
        \/ BodyCompletes(r)

SpecConc ==
    Init /\ [][NextConc]_vars

\* Once the fetch promise has resolved the event loop runs the handler's
\* continuation, and an upstream that has answered ends its body.  Nothing
\* makes the upstream answer the fetch.
SpecLive ==
    /\ Init
    /\ [][NextConc]_vars
    /\ \A r \in Requests :
          /\ WF_vars(CopyUpstreamHeaders(r))
          /\ WF_vars(ForceFrameHeaders(r))
          /\ WF_vars(BodyCompletes(r))

(***************************************************************************)
(* Two requests whose `url` values are spelled with different letter case. *)
(***************************************************************************)

CaseQueryValues ==
    {[kind |-> "undefined", str |-> <<>>]}
    \cup {[kind |-> "string", str |-> s] :
            s \in {U_badssl, U_upperHost, U_otherScheme, U_otherSchemeUpper, U_notAUrl}}

CaseResponses(target) ==
    {[status |-> 200, headers |-> MakeHeaders(L), body |-> "<html>lab</html>",
      host |-> ParseURL(target).hostname] : L \in {{}, {<<N_Server, "nginx">>}}}

ReceiveCase(r) ==
    ReceiveFrom(r, CaseQueryValues)

FetchResolvesCase(r) ==
    FetchResolvesWith(r, CaseResponses(query[r].str))

NextCase ==
    \E r \in Requests :
        \/ ReceiveCase(r)
        \/ HandlerStep(r)
        \/ FetchResolvesCase(r)
        \/ FetchRejects(r)
        \/ BodyCompletes(r)

SpecCase ==
    Init /\ [][NextCase]_vars

(***************************************************************************)
(* The statements of the course service against the store.                 *)
(***************************************************************************)

\* CourseService.enrollInCourse: INSERT INTO course_enrollments (user_id,
\* course_id).  UNIQUE(user_id, course_id) rejects a second row.
enrollInCourse(userId, courseId) ==
    /\ IF <<userId, courseId>> \in DOMAIN course_enrollments
       THEN /\ dbResult' = Result("enrollInCourse", <<userId, courseId>>, "23505")
            /\ UNCHANGED <<courses, course_enrollments>>
       ELSE /\ course_enrollments' =
                  Put(course_enrollments, <<userId, courseId>>, NewEnrollment)
            /\ courses' = update_course_enrollment_count(courses, "INSERT", courseId)
            /\ dbResult' = Result("enrollInCourse", <<userId, courseId>>, "")
    /\ UNCHANGED <<course_modules, user_progress>>
    /\ UNCHANGED <<proxy, auth, viewer>>

\* DELETE FROM course_enrollments of one row.
deleteEnrollment(userId, courseId) ==
    /\ <<userId, courseId>> \in DOMAIN course_enrollments
    /\ course_enrollments' = Drop(course_enrollments, <<userId, courseId>>)
    /\ courses' = update_course_enrollment_count(courses, "DELETE", courseId)
    /\ dbResult' = Result("deleteEnrollment", <<userId, courseId>>, "")
    /\ UNCHANGED <<course_modules, user_progress>>
    /\ UNCHANGED <<proxy, auth, viewer>>

\* supabase.from('user_progress').upsert([row]) with the triggers it fires,
\* as CourseService.updateProgress issues it: upsert of one row, conflict
\* target the primary key.  With the id of the row of (user, course, module)
\* in progressData (byId) the row is updated; without it a row is inserted,
\* which UNIQUE(user_id, course_id, module_id) rejects when there is one.
upsertProgress(userId, moduleId, completed, byId) ==
    LET courseId == ModuleCourse[moduleId]
        key == <<userId, courseId, moduleId>>
        rows == Put(user_progress, key, [completed |-> completed])
        enr == calculate_course_progress(course_enrollments, course_modules, rows,
                                         userId, courseId)
        error == IF moduleId \notin DOMAIN course_modules THEN "23503"
                 ELSE IF key \in DOMAIN user_progress /\ ~byId THEN "23505"
                 ELSE IF ~CheckProgress(enr) THEN "23514"
                 ELSE ""
    IN /\ byId => key \in DOMAIN user_progress
       /\ dbResult' = Result("updateProgress", key, error)
       /\ IF error = ""
          THEN /\ user_progress' = rows
               /\ course_enrollments' = enr
          ELSE UNCHANGED <<user_progress, course_enrollments>>
       /\ UNCHANGED <<courses, course_modules>>

updateProgress(userId, moduleId, completed, byId) ==
    /\ upsertProgress(userId, moduleId, completed, byId)
    /\ UNCHANGED <<proxy, auth, viewer>>

\* CourseService.createModule: INSERT INTO course_modules; is_published
\* comes with moduleData (DEFAULT false).
createModule(moduleId, is_published) ==
    /\ moduleId \notin DOMAIN course_modules
    /\ course_modules' = Put(course_modules, moduleId,
                             [course_id |-> ModuleCourse[moduleId],
                              is_published |-> is_published])
    /\ dbResult' = Result("createModule", <<moduleId>>, "")
    /\ UNCHANGED <<courses, course_enrollments, user_progress>>
    /\ UNCHANGED <<proxy, auth, viewer>>

\* CourseService.updateModule(id, { is_published }): publish or unpublish.
\* .single() reports PGRST116 when no row has the id.
updateModule(moduleId, is_published) ==
    /\ IF moduleId \in DOMAIN course_modules
       THEN /\ course_modules' =
                  [course_modules EXCEPT ![moduleId].is_published = is_published]
            /\ dbResult' = Result("updateModule", <<moduleId>>, "")
       ELSE /\ dbResult' = Result("updateModule", <<moduleId>>, "PGRST116")
            /\ UNCHANGED course_modules
    /\ UNCHANGED <<courses, course_enrollments, user_progress>>
    /\ UNCHANGED <<proxy, auth, viewer>>

\* DELETE FROM user_progress of one row.  The progress trigger is AFTER
\* INSERT OR UPDATE: a delete runs no trigger.
deleteProgress(userId, moduleId) ==
    LET key == <<userId, ModuleCourse[moduleId], moduleId>>
    IN /\ key \in DOMAIN user_progress
       /\ user_progress' = Drop(user_progress, key)
       /\ dbResult' = Result("deleteProgress", key, "")
       /\ UNCHANGED <<courses, course_modules, course_enrollments>>
       /\ UNCHANGED <<proxy, auth, viewer>>

\* DELETE FROM course_modules of one row; user_progress.module_id is ON
\* DELETE CASCADE, and the cascade runs no trigger either.
deleteModule(moduleId) ==
    /\ moduleId \in DOMAIN course_modules
    /\ course_modules' = Drop(course_modules, moduleId)
    /\ user_progress' = [k \in {j \in DOMAIN user_progress : j[3] # moduleId} |->
                            user_progress[k]]
    /\ dbResult' = Result("deleteModule", <<moduleId>>, "")
    /\ UNCHANGED <<courses, course_enrollments>>
    /\ UNCHANGED <<proxy, auth, viewer>>

NextDb ==
    \/ \E u \in Users, c \in Courses : enrollInCourse(u, c)
    \/ \E u \in Users, c \in Courses : deleteEnrollment(u, c)
    \/ \E u \in Learners, m \in Modules, completed \in BOOLEAN, byId \in BOOLEAN :
          updateProgress(u, m, completed, byId)
    \/ \E m \in Modules, p \in BOOLEAN : createModule(m, p)
    \/ \E m \in Modules, p \in BOOLEAN : updateModule(m, p)
    \/ \E u \in Learners, m \in Modules : deleteProgress(u, m)
    \/ \E m \in Modules : deleteModule(m)

SpecDb ==
    Init /\ [][NextDb]_vars

(***************************************************************************)
(* The calls of AuthService.                                               *)
(***************************************************************************)

\* AuthService.register up to the insert: the select of the email.  A
\* database error and a row with the email end the call with an Error.
registerCheck(b, email, role) ==
    /\ authCall[b].step = "idle"
    /\ \E networkOk \in BOOLEAN :
          authCall' = [authCall EXCEPT ![b] =
              IF ~networkOk THEN Ended("Failed to check existing user")
              ELSE IF \E u \in users : u.email = email
                   THEN Ended("User already exists with this email")
                   ELSE [NoCall EXCEPT !.step = "insert", !.email = email,
                                       !.role = role, !.password = RegisterPassword]]
    /\ UNCHANGED <<users, localStorage>>
    /\ UNCHANGED <<proxy, store, viewer>>

\* AuthService.register from the insert on: the row goes into users and,
\* without password_hash, into localStorage; an error of the insert ends the
\* call with 'Failed to create user'.
registerInsert(b) ==
    LET call == authCall[b]
        row == [id |-> NewId(users), email |-> call.email, role |-> call.role,
                password_hash |-> Hash(call.password)]
    IN /\ call.step = "insert"
       /\ \E networkOk \in BOOLEAN :
             IF networkOk /\ InsertError(users, row) = ""
             THEN /\ users' = users \cup {row}
                  /\ localStorage' = [localStorage EXCEPT ![b] = WithoutPassword(row)]
                  /\ authCall' = [authCall EXCEPT ![b] = Ended("ok")]
             ELSE /\ authCall' = [authCall EXCEPT ![b] = Ended("Failed to create user")]
                  /\ UNCHANGED <<users, localStorage>>
       /\ UNCHANGED <<proxy, store, viewer>>

\* AuthService.login up to bcrypt.compare: the connection test and the
\* select of the row with the email and the role.
loginSelect(b, email, role, password) ==
    /\ authCall[b].step = "idle"
    /\ \E networkOk \in BOOLEAN :
          authCall' = [authCall EXCEPT ![b] =
              IF ~networkOk THEN Ended("Database error during login")
              ELSE IF SelectUser(users, email, role) = {}
                   THEN Ended("No account found")
                   ELSE [NoCall EXCEPT !.step = "compare", !.email = email,
                                       !.role = role, !.password = password,
                                       !.user = CHOOSE u \in SelectUser(users, email, role) : TRUE]]
    /\ UNCHANGED <<users, localStorage>>
    /\ UNCHANGED <<proxy, store, viewer>>

\* AuthService.login from bcrypt.compare on.
loginCompare(b) ==
    LET call == authCall[b]
    IN /\ call.step = "compare"
       /\ IF Compare(call.password, call.user.password_hash)
          THEN /\ localStorage' = [localStorage EXCEPT ![b] = WithoutPassword(call.user)]
               /\ authCall' = [authCall EXCEPT ![b] = Ended("ok")]
          ELSE /\ authCall' = [authCall EXCEPT ![b] = Ended("Incorrect password")]
               /\ UNCHANGED localStorage
       /\ UNCHANGED users
       /\ UNCHANGED <<proxy, store, viewer>>

\* AuthService.logout: localStorage.removeItem('cyberSecUser').
logout(b) ==
    /\ localStorage[b] # null
    /\ localStorage' = [localStorage EXCEPT ![b] = null]
    /\ UNCHANGED <<users, authCall>>
    /\ UNCHANGED <<proxy, store, viewer>>

NextAuth ==
    \E b \in Browsers :
        \/ \E e \in Emails, r \in RoleInputs : registerCheck(b, e, r)
        \/ registerInsert(b)
        \/ \E e \in Emails, r \in Roles, p \in LoginPasswords : loginSelect(b, e, r, p)
        \/ loginCompare(b)
        \/ logout(b)

SpecAuth ==
    Init /\ [][NextAuth]_vars

(***************************************************************************)
(* The steps of the module viewer.                                         *)
(***************************************************************************)

\* onClick={() => setShowTest(true)}
startTest ==
    /\ ~showTest
    /\ showTest' = TRUE
    /\ UNCHANGED <<owaspCourses, completion>>
    /\ UNCHANGED <<proxy, store, auth>>

\* onBack={() => setShowTest(false)} of the test.
closeTest ==
    /\ showTest
    /\ showTest' = FALSE
    /\ UNCHANGED <<owaspCourses, completion>>
    /\ UNCHANGED <<proxy, store, auth>>

\* handleTestCompletion(score) up to its first await: the module object is
\* marked, the test closed, and for a user the upsert is sent.
handleTestCompletion(score, user) ==
    /\ showTest
    /\ completion.step \in {"idle", "done"}
    /\ owaspCourses' = [owaspCourses EXCEPT ![ViewerModule] =
                            [completed |-> TRUE, testScore |-> <<score>>]]
    /\ showTest' = FALSE
    /\ completion' = [NoCompletion EXCEPT
                         !.step = IF user # NoUser THEN "upsert" ELSE "done",
                         !.score = score,
                         !.user = user,
                         !.upsert = IF user # NoUser THEN "pending" ELSE "none"]
    /\ UNCHANGED <<proxy, store, auth>>

\* upsertRejects with a catch block that takes the completion back.
upsertRejectsReverts ==
    /\ completion.step = "upsert"
    /\ completion' = [completion EXCEPT !.step = "done", !.upsert = "rejected",
                                        !.logged = TRUE]
    /\ owaspCourses' = [owaspCourses EXCEPT ![ViewerModule].completed = FALSE]
    /\ UNCHANGED showTest
    /\ UNCHANGED <<proxy, store, auth>>

\* The upsert promise resolves, with the row or with the error of the store;
\* the handler looks at neither and calls learningPathService.rebalance.
upsertReturns ==
    /\ completion.step = "upsert"
    /\ upsertProgress(completion.user, ViewerModule, TRUE, FALSE)
    /\ completion' = [completion EXCEPT !.step = "rebalance", !.upsert = "returned",
                                        !.rebalance = "started"]
    /\ UNCHANGED <<owaspCourses, showTest>>
    /\ UNCHANGED <<proxy, auth>>

\* The upsert promise rejects: the catch block logs, nothing else runs.
upsertRejects ==
    /\ completion.step = "upsert"
    /\ completion' = [completion EXCEPT !.step = "done", !.upsert = "rejected",
                                        !.logged = TRUE]
    /\ UNCHANGED <<owaspCourses, showTest>>
    /\ UNCHANGED <<proxy, store, auth>>

\* learningPathService.rebalance resolves.
rebalanceResolves ==
    /\ completion.step = "rebalance"
    /\ completion' = [completion EXCEPT !.step = "done", !.rebalance = "resolved"]
    /\ UNCHANGED <<owaspCourses, showTest>>
    /\ UNCHANGED <<proxy, store, auth>>

\* learningPathService.rebalance rejects: the catch block logs.
rebalanceRejects ==
    /\ completion.step = "rebalance"
    /\ completion' = [completion EXCEPT !.step = "done", !.rebalance = "rejected",
                                        !.logged = TRUE]
    /\ UNCHANGED <<owaspCourses, showTest>>
    /\ UNCHANGED <<proxy, store, auth>>

\* The viewer, with the statements that decide how the store takes the
\* upsert: the module of the viewer may be a row of course_modules or not,
\* and the learner may be enrolled or not.
NextViewer ==
    \/ startTest
    \/ closeTest
    \/ \E score \in Scores, user \in ViewerUsers : handleTestCompletion(score, user)
    \/ upsertReturns
    \/ upsertRejects
    \/ rebalanceResolves
    \/ rebalanceRejects
    \/ \E p \in BOOLEAN : createModule(ViewerModule, p)
    \/ \E u \in Learners : enrollInCourse(u, ModuleCourse[ViewerModule])

SpecViewer ==
    Init /\ [][NextViewer]_vars

(***************************************************************************)
(* Properties of the proxy and of the store.                               *)
(***************************************************************************)

\* The four host names of the allow-list.
AllowedHosts ==
    {H_testphp, H_juiceHeroku, H_juiceGithub, H_badssl}

\* The `url` parameter of r is a non-empty string.
HasUrlString(r) ==
    query[r].kind = "string" /\ query[r].str # <<>>

\* r is finished and its response is the relayed upstream response.
Relayed(r) ==
    pc[r] = "done" /\ upstream[r] # NoResponse /\ console[r] = <<>>

\* r is finished by one of the two early returns of the handler.
Rejected(r) ==
    pc[r] = "done" /\ upstream[r] = NoResponse /\ console[r] = <<>>

\* r is finished by the catch block.
Failed(r) ==
    pc[r] = "done" /\ console[r] # <<>>

\* The one response of r is status with body.
Answered(r, status, body) ==
    /\ Len(res[r].sent) = 1
    /\ res[r].sent[1].status = status
    /\ res[r].sent[1].body = body

\* C1: a request without the `url` parameter is answered 400 "Missing url
\* param", and at no point of its handling is an outbound fetch issued.
C1_MissingUrlIs400 ==
    \A r \in Requests :
        query[r].kind = "undefined" =>
            /\ outbound[r] = <<>>
            /\ pc[r] = "done" => Answered(r, 400, "Missing url param")

C1_Witness ==
    /\ pc[Followed] = "done"
    /\ query[Followed].kind = "undefined"
    /\ Len(res[Followed].sent) = 1

\* C2: a request whose URL parses and whose host is none of the four
\* allow-listed names is answered 403 "Domain not allowed".
C2_ForeignHostIs403 ==
    \A r \in Requests :
        (/\ pc[r] = "done"
         /\ HasUrlString(r)
         /\ ParseURL(query[r].str).ok
         /\ ParseURL(query[r].str).hostname \notin AllowedHosts)
            => Answered(r, 403, "Domain not allowed")

C2_Witness ==
    /\ pc[Followed] = "done"
    /\ query[Followed].str = U_subdomain
    /\ res[Followed].sent[1].status = 403

\* C3: a relayed response has the upstream status and carries every upstream
\* header other than x-frame-options and content-security-policy with the
\* value the upstream sent.
C3_HeadersRelayedUnchanged ==
    \A r \in Requests :
        Relayed(r) =>
            /\ Len(res[r].sent) = 1
            /\ res[r].sent[1].status = upstream[r].status
            /\ \A n \in DOMAIN upstream[r].headers \ {N_xFrameOptions, N_contentSecurityPolicy} :
                  /\ n \in DOMAIN res[r].sent[1].headers
                  /\ res[r].sent[1].headers[n] = upstream[r].headers[n]

\* C4: a relayed response has X-Frame-Options with the empty value and
\* Content-Security-Policy: frame-ancestors 'self' *, whatever the upstream
\* sent under those names; they are in place from the end of the override
\* step on.
C4_FrameHeadersForced ==
    \A r \in Requests :
        (pc[r] = "body" \/ Relayed(r)) =>
            LET h == IF pc[r] = "body" THEN res[r].headers ELSE res[r].sent[1].headers
            IN /\ N_xFrameOptions \in DOMAIN h
               /\ h[N_xFrameOptions] = ""
               /\ N_contentSecurityPolicy \in DOMAIN h
               /\ h[N_contentSecurityPolicy] = "frame-ancestors 'self' *"

C4_Witness ==
    /\ Relayed(Followed)
    /\ N_xFrameOptions \in DOMAIN upstream[Followed].headers
    /\ N_contentSecurityPolicy \in DOMAIN upstream[Followed].headers
    /\ res[Followed].sent[1].headers[N_xFrameOptions] = ""

\* C5: the copy step leaves out the upstream x-frame-options and
\* content-security-policy headers: right after the copy the response has
\* neither, and no response put on the wire has under those names a value
\* other than the forced ones.
C5_UpstreamFrameHeadersDropped ==
    \A r \in Requests :
        /\ pc[r] = "force" =>
              /\ N_xFrameOptions \notin DOMAIN res[r].headers
              /\ N_contentSecurityPolicy \notin DOMAIN res[r].headers
        /\ \A i \in 1..Len(res[r].sent) :
              LET h == res[r].sent[i].headers
              IN /\ N_xFrameOptions \in DOMAIN h => h[N_xFrameOptions] = ""
                 /\ N_contentSecurityPolicy \in DOMAIN h
                       => h[N_contentSecurityPolicy] = "frame-ancestors 'self' *"

C5_Witness ==
    /\ pc[Followed] = "force"
    /\ N_contentSecurityPolicy \in DOMAIN upstream[Followed].headers
    /\ ToLowerStr(N_Server) \in DOMAIN res[Followed].headers

\* C6: a non-empty `url` string that does not parse as an absolute URL is
\* answered 500 "Proxy error" (so never 403), and no outbound fetch is
\* issued for it.
C6_UnparsableUrlIs500 ==
    \A r \in Requests :
        (HasUrlString(r) /\ ~ParseURL(query[r].str).ok) =>
            /\ outbound[r] = <<>>
            /\ pc[r] = "done" => Answered(r, 500, "Proxy error")

C6_Witness ==
    /\ pc[Followed] = "done"
    /\ query[Followed].str = U_notAUrl
    /\ res[Followed].sent[1].status = 500

\* C7 as written: a request whose `url` is absent or is not a syntactically
\* valid absolute URL is answered 400.
C7_InvalidUrlIs400 ==
    \A r \in Requests :
        (/\ pc[r] = "done"
         /\ (~HasUrlString(r) \/ ~ParseURL(query[r].str).ok))
            => (Len(res[r].sent) = 1 /\ res[r].sent[1].status = 400)

\* C7 as amended: a request whose `url` is not a non-empty string fails as
\* a bad request with status 400; one whose `url` is a non-empty string
\* that is no valid absolute URL fails with status 500, not 400.
C7_BadRequestOnlyWhenMissing ==
    \A r \in Requests :
        pc[r] = "done" =>
            /\ ~HasUrlString(r) =>
                  (Len(res[r].sent) = 1 /\ res[r].sent[1].status = 400)
            /\ (HasUrlString(r) /\ ~ParseURL(query[r].str).ok) =>
                  (Len(res[r].sent) = 1 /\ res[r].sent[1].status = 500)

C7_Witness ==
    /\ pc[Followed] = "done"
    /\ query[Followed].str = U_badPort
    /\ res[Followed].sent[1].status = 500
    /\ res[Followed].sent[1].body = "Proxy error"

\* C8: every exception of the handler (URL parse, fetch, body read) ends in
\* the catch block: the request is answered 500 "Proxy error" and no
\* exception leaves the handler.
C8_ExceptionsCaught ==
    \A r \in Requests :
        /\ ~res[r].escaped
        /\ console[r] # <<>> =>
              /\ pc[r] = "done"
              /\ Len(console[r]) = 1
              /\ Answered(r, 500, "Proxy error")

C8_Witness ==
    /\ console[Followed] = <<"TypeError: terminated">>
    /\ upstream[Followed].status = 200
    /\ res[Followed].sent[1].status = 500

\* The four ways a request ends.
Own400(r) ==
    Rejected(r) /\ outbound[r] = <<>> /\ Answered(r, 400, "Missing url param")

Own403(r) ==
    Rejected(r) /\ outbound[r] = <<>> /\ Answered(r, 403, "Domain not allowed")

Passthrough(r) ==
    Relayed(r) /\ Answered(r, upstream[r].status, upstream[r].body)

Own500(r) ==
    Failed(r) /\ Answered(r, 500, "Proxy error")

\* C9: a finished request has sent exactly one response, an unfinished one
\* none, and the response is exactly one of: the handler's 400, the
\* handler's 403, the upstream's status and body, the catch block's 500.
C9_OneResponseOneOutcome ==
    \A r \in Requests :
        /\ pc[r] # "done" => res[r].sent = <<>>
        /\ pc[r] = "done" =>
              /\ Len(res[r].sent) = 1
              /\ Cardinality({k \in 1..4 :
                    \/ k = 1 /\ Own400(r)
                    \/ k = 2 /\ Own403(r)
                    \/ k = 3 /\ Passthrough(r)
                    \/ k = 4 /\ Own500(r)}) = 1

C9_Witness ==
    /\ Passthrough(Followed)
    /\ upstream[Followed].status = 403
    /\ upstream[Followed].body # ""

\* C10: every URL handed to fetch has an allow-listed host, and a request
\* ended by the handler's 400 or 403 has issued no outbound fetch.
C10_FetchOnlyAllowed ==
    \A r \in Requests :
        /\ \A i \in 1..Len(outbound[r]) :
              /\ ParseURL(outbound[r][i]).ok
              /\ ParseURL(outbound[r][i]).hostname \in AllowedHosts
        /\ Rejected(r) => outbound[r] = <<>>

C10_Witness ==
    /\ pc[Followed] = "fetch"
    /\ outbound[Followed] = <<U_upperHost>>


\* C11: only the host of the `url` parameter is validated.  Once a response
\* has arrived from a host outside the allow-list (the end of a redirect
\* chain) the handler goes on as for any response: it is relayed with the
\* upstream status and body, and the only other ending is a failed body read.
C11_FinalHostNotChecked ==
    \A r \in Requests :
        (upstream[r] # NoResponse /\ upstream[r].host \notin AllowedHosts) =>
            /\ ParseURL(query[r].str).hostname \in AllowedHosts
            /\ \/ pc[r] \in {"copy", "force", "body"}
               \/ Relayed(r) /\ Answered(r, upstream[r].status, upstream[r].body)
               \/ Failed(r) /\ console[r] = <<"TypeError: terminated">>

C11_Witness ==
    /\ Relayed(Followed)
    /\ upstream[Followed].host = H_elsewhere
    /\ upstream[Followed].status = 200
    /\ res[Followed].sent[1].body = "<html>lab</html>"

\* C12: a request either relays the upstream response in full or fails with
\* 500 "Proxy error" carrying nothing of the upstream response: no header of
\* the failure response has the value the upstream sent under that name, and
\* the body is the fixed text.
C12_NoPartialFailure ==
    \A r \in Requests :
        /\ Relayed(r) => Answered(r, upstream[r].status, upstream[r].body)
        /\ Failed(r) =>
              /\ Answered(r, 500, "Proxy error")
              /\ \A n \in DOMAIN upstream[r].headers :
                    n \in DOMAIN res[r].sent[1].headers
                       => res[r].sent[1].headers[n] # upstream[r].headers[n]

\* C13: every response of the proxy allows every origin: its
\* Access-Control-Allow-Origin is "*", whatever the upstream sent.
C13_AnyOriginAllowed ==
    \A r \in Requests :
        \A i \in 1..Len(res[r].sent) :
            LET h == res[r].sent[i].headers
            IN /\ ToLowerStr(N_AccessControlAllowOrigin) \in DOMAIN h
               /\ h[ToLowerStr(N_AccessControlAllowOrigin)] = "*"

\* C15: the allow-list is the same four host names, in the same order, in
\* every reachable state.
C15_AllowlistFixed ==
    allowlist = <<H_testphp, H_juiceHeroku, H_juiceGithub, H_badssl>>

C15_Witness ==
    /\ Relayed(Followed)
    /\ query[Followed].str = U_testphp
    /\ Len(allowlist) = 4

\* C19: a request causes at most one call of fetch, also when that call fails.
C19_NoRetry ==
    \A r \in Requests :
        /\ Len(outbound[r]) <= 1
        /\ Failed(r) => Len(console[r]) = 1

C19_Witness ==
    /\ Failed(Followed)
    /\ console[Followed] = <<"TypeError: fetch failed">>
    /\ Len(outbound[Followed]) = 1

\* C20: the host check is equality of the parsed hostname with an entry of
\* the allow-list.  A subdomain, a parent domain, a host with an allowed name
\* as prefix, and an allowed name in the userinfo or in the path are answered
\* 403; an allowed host passes the check with any port, scheme, path or query.
C20_Rejected ==
    {U_subdomain, U_parent, U_suffix, U_userinfo, U_inPath}

C20_Passing ==
    {U_badssl, U_port, U_testphp, U_query, U_ftp, U_otherScheme, U_noSlashes}

C20_ExactHostMatch ==
    \A r \in Requests :
        (pc[r] \notin {"idle", "handler"} /\ HasUrlString(r) /\ ParseURL(query[r].str).ok) =>
            /\ (outbound[r] = <<query[r].str>>)
                  <=> (ParseURL(query[r].str).hostname \in AllowedHosts)
            /\ query[r].str \in C20_Rejected =>
                  (outbound[r] = <<>> /\ Answered(r, 403, "Domain not allowed"))
            /\ query[r].str \in C20_Passing => outbound[r] = <<query[r].str>>

C20_Witness ==
    /\ pc[Followed] = "done"
    /\ query[Followed].str = U_parent
    /\ res[Followed].sent[1].status = 403


\* The response object a finished request has when nothing but its own
\* `url` parameter q, its own upstream response u and the failure of its own
\* fetch or body read (failed) decide it.
OwnResponse(q, u, failed) ==
    IF MissingUrl(q) THEN Send(Status(NewRes, 400), "Missing url param", FALSE)
    ELSE IF ~ParseURL(q.str).ok THEN Caught(NewRes)
    ELSE IF ParseURL(q.str).hostname \notin AllowedHosts
         THEN Send(Status(NewRes, 403), "Domain not allowed", FALSE)
    ELSE IF u = NoResponse THEN Caught(NewRes)
    ELSE LET copied == [NewRes EXCEPT !.headers =
                          ForceFrame(CopyHeaders(@, u.headers, DOMAIN u.headers))]
         IN IF failed THEN Caught(copied)
            ELSE Send(Status(copied, u.status), u.body, TRUE)

\* C14: under every interleaving of concurrent requests, a step of one
\* request leaves the state of every other request and the allow-list as
\* they were, and the response object of a finished request is the one its
\* own `url` parameter and its own upstream response determine.
C14_RequestsIndependent ==
    [][\A r \in Requests :
          /\ pc'[r] = pc[r] =>
                /\ query'[r] = query[r]
                /\ outbound'[r] = outbound[r]
                /\ upstream'[r] = upstream[r]
                /\ res'[r] = res[r]
                /\ console'[r] = console[r]
          /\ pc'[r] = "done" =>
                res'[r] = OwnResponse(query'[r], upstream'[r], console'[r] # <<>>)
          /\ allowlist' = allowlist]_vars

C14_Witness ==
    /\ Relayed("r1")
    /\ pc["r2"] = "body"
    /\ query["r1"] = query["r2"]
    /\ upstream["r1"].headers # upstream["r2"].headers

C17_ProgressRecomputed ==
    (dbResult.op = "updateProgress" /\ dbResult.error = "") =>
        LET U == dbResult.key[1]
            C == dbResult.key[2]
            done == Cardinality({k \in DOMAIN user_progress :
                                    k[1] = U /\ k[2] = C /\ user_progress[k].completed})
            published == Cardinality({m \in DOMAIN course_modules :
                                        /\ course_modules[m].course_id = C
                                        /\ course_modules[m].is_published})
        IN <<U, C>> \in DOMAIN course_enrollments =>
              course_enrollments[<<U, C>>].progress_percentage =
                  IF published = 0 THEN 0 ELSE (done * 100) \div published

C17_Witness ==
    /\ dbResult.op = "updateProgress"
    /\ dbResult.error = ""
    /\ <<dbResult.key[1], dbResult.key[2]>> \in DOMAIN course_enrollments
    /\ course_enrollments[<<dbResult.key[1], dbResult.key[2]>>].progress_percentage = 100
    /\ \E m \in DOMAIN course_modules : ~course_modules[m].is_published

\* C18: a step that inserts an enrollment row of course C adds exactly 1 to
\* C.enrollment_count, a step that deletes one takes exactly 1 off, and the
\* enrollment_count of every other course stays as it is.
C18_EnrollmentCountStep ==
    [][\A c \in Courses :
          LET before == {k \in DOMAIN course_enrollments : k[2] = c}
              after  == {k \in DOMAIN course_enrollments' : k[2] = c}
          IN courses'[c].enrollment_count =
                 IF after \ before # {} THEN courses[c].enrollment_count + 1
                 ELSE IF before \ after # {} THEN courses[c].enrollment_count - 1
                 ELSE courses[c].enrollment_count]_vars

C18_Witness ==
    /\ dbResult = Result("deleteEnrollment", <<"u1", "c1">>, "")
    /\ courses["c1"].enrollment_count = 1
    /\ courses["c2"].enrollment_count = 1
    /\ DOMAIN course_enrollments = {<<"u2", "c1">>, <<"u2", "c2">>}


\* The positions of the host in a URL string: from behind the first "//" to
\* the next "/", "?" or "#".
HostSpan(s) ==
    LET slashes == {i \in 1..(Len(s) - 1) : s[i] = "/" /\ s[i + 1] = "/"}
    IN IF slashes = {} THEN {}
       ELSE LET first == CHOOSE i \in slashes : \A j \in slashes : i <= j
                rest  == DropTo(s, first + 2)
            IN (first + 2)..(first + 1 + FirstIn(rest, {"/", "?", "#"}) - 1)

\* a and b are the same string but for the letter case of the host.
OnlyHostCaseDiffers(a, b) ==
    /\ Len(a) = Len(b)
    /\ a # b
    /\ \A i \in 1..Len(a) :
          \/ a[i] = b[i]
          \/ i \in HostSpan(a) /\ ToLowerChar(a[i]) = ToLowerChar(b[i])

\* r has a `url` string and is past the allow-list lookup.
Decided(r) ==
    HasUrlString(r) /\ pc[r] \notin {"idle", "handler"}

\* C21: two requests whose `url` values differ only in the letter case of
\* the host get the same decision of the allow-list lookup: both are answered
\* 403 or neither is.
C21_CaseConsistent ==
    \A r1, r2 \in Requests :
        (Decided(r1) /\ Decided(r2)
           /\ OnlyHostCaseDiffers(query[r1].str, query[r2].str))
        => ((Rejected(r1) /\ Answered(r1, 403, "Domain not allowed"))
              <=> (Rejected(r2) /\ Answered(r2, 403, "Domain not allowed")))


\* C22: a request whose `url` parameter is an array, an object or the empty
\* string is answered 400 "Missing url param" by the early return: no fetch
\* is made for it, nothing is thrown, and it is never answered 403 or 500.
C22_NonStringIs400 ==
    \A r \in Requests :
        (query[r].kind \in {"array", "object"}
            \/ (query[r].kind = "string" /\ query[r].str = <<>>))
        => /\ outbound[r] = <<>>
           /\ console[r] = <<>>
           /\ pc[r] \in {"handler", "done"}
           /\ pc[r] = "done" =>
                 /\ Answered(r, 400, "Missing url param")
                 /\ res[r].statusCode \notin {403, 500}

C22_Witness ==
    /\ pc[Followed] = "done"
    /\ query[Followed].kind = "array"
    /\ Answered(Followed, 400, "Missing url param")


\* The roll-up of the data as it is now: completed progress rows of the user
\* in the course * 100 by the published modules of the course, 0 if none.
RollUp(userId, courseId) ==
    LET done == Cardinality({k \in DOMAIN user_progress :
                                /\ k[1] = userId
                                /\ k[2] = courseId
                                /\ user_progress[k].completed})
        published == Cardinality({m \in DOMAIN course_modules :
                                    /\ course_modules[m].course_id = courseId
                                    /\ course_modules[m].is_published})
    IN IF published = 0 THEN 0 ELSE (done * 100) \div published

\* C23: the progress_percentage of every enrollment is within 0..100, and
\* no insert or update of a progress row is rejected by the CHECK on it.
C23_ProgressInRange ==
    /\ \A k \in DOMAIN course_enrollments :
          course_enrollments[k].progress_percentage \in 0..100
    /\ ~(dbResult.op = "updateProgress" /\ dbResult.error = "23514")

\* C24: the stored progress_percentage of every enrollment equals the
\* roll-up of the current data.
C24_ProgressCurrent ==
    \A k \in DOMAIN course_enrollments :
        course_enrollments[k].progress_percentage = RollUp(k[1], k[2])

\* C25: completed_at of an enrollment is set exactly when its
\* progress_percentage is 100.
C25_CompletedIff100 ==
    \A k \in DOMAIN course_enrollments :
        (course_enrollments[k].completed_at # "NULL")
            <=> (course_enrollments[k].progress_percentage = 100)

C25_Witness ==
    /\ dbResult.op = "updateProgress"
    /\ dbResult.error = ""
    /\ \E k \in DOMAIN course_enrollments :
          /\ k[1] = dbResult.key[1]
          /\ course_enrollments[k].progress_percentage = 50
          /\ course_enrollments[k].completed_at = "NULL"
          /\ \A j \in DOMAIN user_progress : user_progress[j].completed

\* C26: the enrollment_count of every course is the number of its rows in
\* course_enrollments and is not negative, and an enrollInCourse that the
\* unique constraint rejects leaves it so.
C26_CountIsRows ==
    \A c \in Courses :
        /\ courses[c].enrollment_count =
              Cardinality({k \in DOMAIN course_enrollments : k[2] = c})
        /\ courses[c].enrollment_count >= 0

C26_Witness ==
    /\ dbResult = Result("enrollInCourse", <<"u1", "c1">>, "23505")
    /\ courses["c1"].enrollment_count = 2
    /\ courses["c2"].enrollment_count = 0


\* The call of browser b ends in this step with an Error thrown.
Throws(b) ==
    /\ authCall'[b] # authCall[b]
    /\ authCall'[b].step = "idle"
    /\ authCall'[b].outcome # "ok"

\* C27: no two rows of users have the same email, also when two register
\* calls for one email interleave between the check and the insert; a
\* register call whose email has a row when it checks or when it inserts
\* ends with an Error; and a call that ends with an Error inserts no row and
\* leaves the stored session of its browser as it was.
C27_OneRowPerEmail ==
    /\ [](\A u, v \in users : u.email = v.email => u = v)
    /\ [][\A b \in Browsers :
            /\ (/\ authCall[b].step = "insert"
                /\ authCall'[b].step = "idle"
                /\ \E u \in users : u.email = authCall[b].email)
                  => authCall'[b].outcome = "Failed to create user"
            /\ Throws(b) => (users' = users /\ localStorage'[b] = localStorage[b])]_vars

C27_Witness ==
    /\ authCall["b1"].outcome = "ok"
    /\ authCall["b2"].step = "insert"
    /\ \E u \in users : u.email = authCall["b2"].email
    /\ localStorage["b1"] # null
    /\ localStorage["b2"] = null

\* C28: a login ends well only if a row of users has the email and the role
\* given and its hash matches the password given, and then that row without
\* password_hash is the stored session; a call that throws leaves the stored
\* session as it was; no stored session has a password_hash; and the stored
\* session is set by nothing but a login or register that ends well.
C28_LoginSafe ==
    /\ [](\A b \in Browsers : "password_hash" \notin DOMAIN localStorage[b])
    /\ [][\A b \in Browsers :
            /\ (authCall[b].step = "compare" /\ authCall'[b].outcome = "ok"
                  /\ authCall'[b].step = "idle")
                  => \E u \in users :
                        /\ u.email = authCall[b].email
                        /\ u.role = authCall[b].role
                        /\ Compare(authCall[b].password, u.password_hash)
                        /\ localStorage'[b] = WithoutPassword(u)
            /\ Throws(b) => localStorage'[b] = localStorage[b]
            /\ localStorage'[b] \notin {localStorage[b], null}
                  => (authCall[b].step # "idle" /\ authCall'[b] = Ended("ok"))]_vars

C28_Witness ==
    /\ authCall["b1"].outcome = "Incorrect password"
    /\ localStorage["b1"] # null
    /\ localStorage["b1"].role = "teacher"

C30_LocalCompletion ==
    /\ [](/\ completion.step # "idle" =>
                /\ owaspCourses[ViewerModule].completed
                /\ owaspCourses[ViewerModule].testScore = <<completion.score>>
          /\ completion.rebalance # "none" =>
                (completion.user # NoUser /\ completion.upsert = "returned")
          /\ completion.user = NoUser =>
                (completion.upsert = "none" /\ completion.rebalance = "none")
          /\ completion.logged =>
                (completion.step = "done"
                   /\ "rejected" \in {completion.upsert, completion.rebalance}))
    /\ [][/\ owaspCourses[ViewerModule].completed => owaspCourses'[ViewerModule].completed
          /\ (completion.step \in {"idle", "done"} /\ completion' # completion)
                => /\ ~showTest'
                   /\ owaspCourses'[ViewerModule] =
                         [completed |-> TRUE, testScore |-> <<completion'.score>>]
          /\ \A m \in Modules \ {ViewerModule} : owaspCourses'[m] = owaspCourses[m]]_vars

C30_Witness ==
    /\ completion.step = "done"
    /\ completion.upsert = "returned"
    /\ completion.rebalance = "rejected"
    /\ completion.logged
    /\ dbResult.op = "updateProgress"
    /\ dbResult.error = "23503"
    /\ owaspCourses[ViewerModule] = [completed |-> TRUE, testScore |-> <<80>>]
    /\ ~showTest

=============================================================================
